---- MODULE Spec2Model ----
(***************************************************************************)
(* Model of dagster_cloud's CloudProcessRunLauncher                        *)
(* (execution/cloud_run_launcher/process.py) and of the insights cost      *)
(* uploader (dagster_insights/metrics_utils.py).                           *)
(*                                                                         *)
(* Every launcher operation is one action.  An upload call is a sequence   *)
(* of steps, one per stretch of code between two blocking HTTP requests;   *)
(* launcher operations may run while an upload waits for an answer.  A     *)
(* finished call records its outcome (return value, raised error, the      *)
(* collaborators it called, in order) in lastOp.                           *)
(***************************************************************************)
EXTENDS Integers, Sequences, FiniteSets, TLC

\* ---------------------------------------------------------------- bounds
\* Number of distinct process ids the OS can hand out.
NumPids == 2
\* Distance between two process ids (makes some of them multi-digit).
PidStride == 7

Pids == {k * PidStride : k \in 1..NumPids}

\* Run ids callers may pass; "r0" is never stored, "r1" and "r2" may be.
StoredRunIds == {"r1", "r2"}
RunIds == StoredRunIds \cup {"r0"}

\* ------------------------------------------------------------- constants
PID_TAG == "process/pid"

\* The two kinds of instance object a caller may hold.
DagsterCloudAgentInstance == "DagsterCloudAgentInstance"
InstanceKinds == {DagsterCloudAgentInstance, "DagsterInstance"}

\* DagsterRunStatus values the model distinguishes.
RunStatuses == {"STARTED", "CANCELING", "SUCCESS"}

NoTags == [k \in {} |-> <<>>]
\* Tags a run may carry before it is launched.
UserTags == [k \in {"dagster/user"} |-> <<"a">>]
\* What get_run_by_id gives for an id that is not stored (Python None).
NoRun == [status |-> "None", tags |-> NoTags]

\* Python None for an optional int, and an int value.
None == [isNone |-> TRUE, v |-> 0]
Some(n) == [isNone |-> FALSE, v |-> n]
\* Python truth of an optional int: None and 0 are false.
Truthy(x) == ~x.isNone /\ x.v # 0

VARIABLES
    instance,      \* kind of the instance object (self._instance, context.instance)
    runs,          \* run storage of the instance: run id -> run record or NoRun
    procs,         \* OS process table: pid -> "RUNNING" | "SIGNALED" | "NOT_RUNNING"
    cost_pq_file,  \* TRUE while a temporary cost.parquet exists on disk
    launched,      \* run id -> pid returned by the latest completed launch (0: none)
    upload,        \* the upload call in progress, and the request it waits on
    lastOp         \* outcome of the latest call

vars == <<instance, runs, procs, cost_pq_file, launched, upload, lastOp>>

\* ------------------------------------------------------ str() and int()
Digit == <<"0", "1", "2", "3", "4", "5", "6", "7", "8", "9">>

RECURSIVE str(_)
\* Python str(n) for n >= 0: the decimal digits, most significant first.
str(n) == IF n < 10 THEN <<Digit[n + 1]>>
          ELSE str(n \div 10) \o <<Digit[(n % 10) + 1]>>

DigitValue(c) == CHOOSE d \in 0..9 : Digit[d + 1] = c

RECURSIVE int(_)
\* Python int(s) for a non-empty string of decimal digits.
int(s) == IF Len(s) = 1 THEN DigitValue(s[1])
          ELSE 10 * int(SubSeq(s, 1, Len(s) - 1)) + DigitValue(s[Len(s)])

\* --------------------------------------------- external collaborators
\* run.is_finished
is_finished(run) == run.status \in {"SUCCESS", "FAILURE", "CANCELED"}

\* instance.get_run_by_id(run_id)
get_run_by_id(run_id) == IF run_id \in DOMAIN runs THEN runs[run_id] ELSE NoRun

\* instance.add_run_tags(run_id, new_tags): dict merge, new values win.
add_run_tags(rs, run_id, new_tags) ==
    [rs EXCEPT ![run_id].tags =
        [k \in DOMAIN @ \cup DOMAIN new_tags |->
            IF k \in DOMAIN new_tags THEN new_tags[k] ELSE @[k]]]

\* instance.report_run_canceling(run): the run moves to CANCELING.
report_run_canceling(rs, run_id) == [rs EXCEPT ![run_id].status = "CANCELING"]

\* check_on_process(pid): liveness of the pid as a TaskStatus.
check_on_process(pid) ==
    IF pid \in Pids /\ procs[pid] \in {"RUNNING", "SIGNALED"}
    THEN "RUNNING" ELSE "NOT_RUNNING"

\* kill_process(pid): sends the termination signal; a pid with no live
\* process is left alone and nothing is raised.
kill_process(ps, pid) ==
    IF pid \in Pids /\ ps[pid] \in {"RUNNING", "SIGNALED"}
    THEN [ps EXCEPT ![pid] = "SIGNALED"] ELSE ps

\* What the OS does with the signal of kill_process(pid).
kill_signal(ps, pid) ==
    IF pid \in Pids /\ ps[pid] \in {"RUNNING", "SIGNALED"}
    THEN "delivered" ELSE "no_such_process"

\* launch_process(args): the OS starts a process under the pid it picked.
launch_process(ps, pid) == [ps EXCEPT ![pid] = "RUNNING"]

\* check.not_none(value)
not_none(value) == IF value = "None" THEN "CheckError" ELSE "none"

\* ------------------------------------------------------------- outcomes
\* What a call did: its name and argument, the value it returned, the error
\* it raised ("none": returned normally), the collaborators it called in
\* order, the pid it spawned or looked up, the status code of the
\* upload-URL response it received (0: no response), and what became of the
\* signal it sent ("none": it sent no signal).
Result(op, arg, ret, err, calls, pid, status, signal) ==
    [op |-> op, arg |-> arg, ret |-> ret, err |-> err, calls |-> calls,
     pid |-> pid, status |-> status, signal |-> signal]

Outcome(op, arg, ret, err, calls, pid) ==
    Result(op, arg, ret, err, calls, pid, 0, "none")

\* --------------------------------------------- CloudProcessRunLauncher
\* launch_run: the spawned pid is the OS's choice, passed in as newPid.
launch_run_NoOriginCheck(run_id, pipeline_code_origin, newPid) ==
    [out |-> Outcome("launch_run", run_id, FALSE, "none",
                     <<"launch_process", "add_run_tags">>, newPid),
     runs |-> add_run_tags(runs, run_id, [k \in {PID_TAG} |-> str(newPid)]),
     procs |-> launch_process(procs, newPid)]

launch_run_WriteOnce(run_id, pipeline_code_origin, newPid) ==
    IF not_none(pipeline_code_origin) # "none"
    THEN [out |-> Outcome("launch_run", run_id, FALSE, "CheckError", <<>>, 0),
          runs |-> runs, procs |-> procs]
    ELSE [out |-> Outcome("launch_run", run_id, FALSE, "none",
                          <<"launch_process", "add_run_tags">>, newPid),
          runs |-> IF PID_TAG \in DOMAIN runs[run_id].tags THEN runs
                   ELSE add_run_tags(runs, run_id, [k \in {PID_TAG} |-> str(newPid)]),
          procs |-> launch_process(procs, newPid)]

launch_run(run_id, pipeline_code_origin, newPid) ==
    IF not_none(pipeline_code_origin) # "none"
    THEN [out |-> Outcome("launch_run", run_id, FALSE, "CheckError", <<>>, 0),
          runs |-> runs, procs |-> procs]
    ELSE [out |-> Outcome("launch_run", run_id, FALSE, "none",
                          <<"launch_process", "add_run_tags">>, newPid),
          runs |-> add_run_tags(runs, run_id, [k \in {PID_TAG} |-> str(newPid)]),
          procs |-> launch_process(procs, newPid)]

_get_pid_IgnoreFinished(run) ==
    IF run = NoRun THEN None
    ELSE IF PID_TAG \notin DOMAIN run.tags THEN None
    ELSE Some(int(run.tags[PID_TAG]))

_get_pid(run) ==
    IF run = NoRun \/ is_finished(run) THEN None
    ELSE IF PID_TAG \notin DOMAIN run.tags THEN None
    ELSE Some(int(run.tags[PID_TAG]))

can_terminate_NoLivenessCheck(run_id) ==
    LET run == get_run_by_id(run_id) IN
    IF run = NoRun THEN Outcome("can_terminate", run_id, FALSE, "none", <<>>, 0)
    ELSE LET pid == _get_pid(run) IN
         IF ~Truthy(pid) THEN Outcome("can_terminate", run_id, FALSE, "none", <<>>, 0)
         ELSE Outcome("can_terminate", run_id, TRUE, "none", <<>>, pid.v)

can_terminate(run_id) ==
    LET run == get_run_by_id(run_id) IN
    IF run = NoRun THEN Outcome("can_terminate", run_id, FALSE, "none", <<>>, 0)
    ELSE LET pid == _get_pid(run) IN
         IF ~Truthy(pid) THEN Outcome("can_terminate", run_id, FALSE, "none", <<>>, 0)
         ELSE Outcome("can_terminate", run_id, check_on_process(pid.v) = "RUNNING",
                      "none", <<"check_on_process">>, pid.v)

terminate_KillFirst(run_id) ==
    LET run == get_run_by_id(run_id) IN
    IF run = NoRun
    THEN [out |-> Outcome("terminate", run_id, FALSE, "none", <<>>, 0),
          runs |-> runs, procs |-> procs]
    ELSE LET pid == _get_pid(run) IN
         IF ~Truthy(pid)
         THEN [out |-> Outcome("terminate", run_id, FALSE, "none", <<>>, 0),
               runs |-> runs, procs |-> procs]
         ELSE [out |-> Result("terminate", run_id, TRUE, "none",
                              <<"kill_process", "report_run_canceling">>, pid.v,
                              0, kill_signal(procs, pid.v)),
               runs |-> report_run_canceling(runs, run_id),
               procs |-> kill_process(procs, pid.v)]

terminate_OnlyIfRunning(run_id) ==
    LET run == get_run_by_id(run_id) IN
    IF run = NoRun
    THEN [out |-> Outcome("terminate", run_id, FALSE, "none", <<>>, 0),
          runs |-> runs, procs |-> procs]
    ELSE LET pid == _get_pid(run) IN
         IF ~Truthy(pid) \/ check_on_process(pid.v) # "RUNNING"
         THEN [out |-> Outcome("terminate", run_id, FALSE, "none", <<>>, 0),
               runs |-> runs, procs |-> procs]
         ELSE [out |-> Result("terminate", run_id, TRUE, "none",
                              <<"report_run_canceling", "kill_process">>, pid.v,
                              0, kill_signal(procs, pid.v)),
               runs |-> report_run_canceling(runs, run_id),
               procs |-> kill_process(procs, pid.v)]

terminate(run_id) ==
    LET run == get_run_by_id(run_id) IN
    IF run = NoRun
    THEN [out |-> Outcome("terminate", run_id, FALSE, "none", <<>>, 0),
          runs |-> runs, procs |-> procs]
    ELSE LET pid == _get_pid(run) IN
         IF ~Truthy(pid)
         THEN [out |-> Outcome("terminate", run_id, FALSE, "none", <<>>, 0),
               runs |-> runs, procs |-> procs]
         ELSE [out |-> Result("terminate", run_id, TRUE, "none",
                              <<"report_run_canceling", "kill_process">>, pid.v,
                              0, kill_signal(procs, pid.v)),
               runs |-> report_run_canceling(runs, run_id),
               procs |-> kill_process(procs, pid.v)]

\* -------------------------------------------------------- cost uploader
\* Status codes a response may carry.
StatusCodes == {200, 404, 503}

\* A response of session.post: the exception the call raised instead of
\* returning ("none": it returned), the status code, whether the body is
\* JSON, and the keys of the JSON object.
Response(exc, status_code, is_json, keys) ==
    [exc |-> exc, status_code |-> status_code, is_json |-> is_json, keys |-> keys]

NoResponse == Response("ConnectionError", 0, FALSE, {})

\* Answers to the upload-URL request: no answer at all, or an answer of any
\* status whose body is not JSON or is a JSON object with any of the two
\* expected keys.
GenUrlResponses ==
    {NoResponse}
    \cup {Response("none", c, FALSE, {}) : c \in StatusCodes}
    \cup {Response("none", c, TRUE, ks) :
            c \in StatusCodes, ks \in SUBSET {"url", "fields"}}

\* Answers to the file POST: no answer, or an answer of some status.
FilePostResponses ==
    {NoResponse} \cup {Response("none", c, FALSE, {}) : c \in {204, 403}}

\* raise_http_error(resp): raises on a non-success status.
raise_http_error(resp) ==
    IF resp.status_code \in 200..299 THEN "none" ELSE "DagsterCloudHTTPError"

get_post_request_params_NoCheck(inst) == "none"

\* get_post_request_params: the error it raises ("none": returns the params).
get_post_request_params(inst) ==
    IF inst # DagsterCloudAgentInstance THEN "RuntimeError" ELSE "none"

TemporaryDirectory_exit_OnSuccessOnly(err) == err # "none"

\* Leaving the TemporaryDirectory block with error err: does cost.parquet
\* still exist afterwards?
TemporaryDirectory_exit(err) == FALSE

\* No upload call is in progress.
Idle == [pc |-> "idle", entry |-> "", status |-> 0]
\* A call entered through entry waits for the answer to a request; status is
\* the status code of the upload-URL answer once it has one.
Waiting(pc, entry, status) == [pc |-> pc, entry |-> entry, status |-> status]

\* upload_cost_information up to its first request: the imports, the write
\* of cost.parquet and get_post_request_params.  The error raised ("none":
\* the upload-URL request is sent) and whether the file was written.
upload_enter(installed, inst) ==
    IF ~installed THEN [err |-> "ImportError", calls |-> <<>>]
    ELSE [err |-> get_post_request_params(inst), calls |-> <<"write_table">>]

upload_gen_url_answered_NoStatusCheck(resp) ==
    IF resp.exc # "none" THEN resp.exc
    ELSE IF ~resp.is_json THEN "JSONDecodeError"
    ELSE IF ~({"url", "fields"} \subseteq resp.keys) THEN "AssertionError"
    ELSE "none"

\* upload_cost_information from the answer to the upload-URL request to the
\* file POST: the error raised ("none": the file POST is sent).
upload_gen_url_answered(resp) ==
    IF resp.exc # "none" THEN resp.exc
    ELSE IF raise_http_error(resp) # "none" THEN raise_http_error(resp)
    ELSE IF ~resp.is_json THEN "JSONDecodeError"
    ELSE IF ~({"url", "fields"} \subseteq resp.keys) THEN "AssertionError"
    ELSE "none"

\* upload_cost_information after the file POST: the answer is not looked
\* at; only an exception of session.post ends the call with an error.
upload_file_posted(resp) == resp.exc

InstallExtra == "Exception: Install dagster-cloud[insights]"

put_cost_information_CatchAll(err) == IF err # "none" THEN InstallExtra ELSE err

\* put_cost_information: the error it raises when the upload raised err.
put_cost_information(err) == IF err = "ImportError" THEN InstallExtra ELSE err

\* The outcome of an upload call entered through entry.
Finished(entry, err, calls, status) ==
    Result(entry, "", FALSE,
           IF entry = "put_cost_information" THEN put_cost_information(err) ELSE err,
           calls, 0, status, "none")

\* ---------------------------------------------------------------- state
Init ==
    /\ instance \in InstanceKinds
    /\ runs = [r \in StoredRunIds |->
                [status |-> "STARTED", tags |-> IF r = "r2" THEN UserTags ELSE NoTags]]
    /\ procs = [p \in Pids |-> "NOT_RUNNING"]
    /\ cost_pq_file = FALSE
    /\ launched = [r \in StoredRunIds |-> 0]
    /\ upload = Idle
    /\ lastOp = Outcome("init", "", FALSE, "none", <<>>, 0)

\* launcher.launch_run(context) for a stored run.  A launch that gets as far
\* as launch_process is given, by the OS, any pid that no live process
\* holds, a dead process's included.
LaunchRun(run_id, origin, newPid) ==
    /\ not_none(origin) = "none" => procs[newPid] = "NOT_RUNNING"
    /\ LET r == launch_run(run_id, origin, newPid) IN
        /\ runs' = r.runs
        /\ procs' = r.procs
        /\ lastOp' = r.out
        /\ launched' = IF r.out.err = "none"
                       THEN [launched EXCEPT ![run_id] = newPid] ELSE launched
    /\ UNCHANGED <<instance, cost_pq_file, upload>>

\* launcher.can_terminate(run_id)
CanTerminate(run_id) ==
    /\ lastOp' = can_terminate(run_id)
    /\ UNCHANGED <<instance, runs, procs, cost_pq_file, launched, upload>>

\* launcher.terminate(run_id)
Terminate(run_id) ==
    /\ LET r == terminate(run_id) IN
        /\ runs' = r.runs
        /\ procs' = r.procs
        /\ lastOp' = r.out
    /\ UNCHANGED <<instance, cost_pq_file, launched, upload>>

\* A call of the uploader through entry, up to its first request.  The call
\* either ends here (import or configuration error: the file, if written,
\* is removed on the way out) or is left waiting with cost.parquet on disk.
UploadCall(entry, installed) ==
    /\ upload.pc = "idle"
    /\ LET r == upload_enter(installed, instance) IN
        IF r.err # "none"
        THEN /\ lastOp' = Finished(entry, r.err, r.calls, 0)
             /\ cost_pq_file' = IF r.calls = <<>> THEN cost_pq_file
                                 ELSE TemporaryDirectory_exit(r.err)
             /\ upload' = Idle
        ELSE /\ cost_pq_file' = TRUE
             /\ upload' = Waiting("post:gen_insights_url", entry, 0)
             /\ lastOp' = lastOp
    /\ UNCHANGED <<instance, runs, procs, launched>>

\* upload_cost_information(context, metric_name, cost_information)
Upload(installed) == UploadCall("upload_cost_information", installed)

\* put_cost_information(context, metric_name, cost_information, start, end)
Put(installed) == UploadCall("put_cost_information", installed)

\* session.post of the upload-URL request returns or raises: the call ends
\* with an error and the file removed, or sends the file POST and waits.
GenUrlAnswered(resp) ==
    /\ upload.pc = "post:gen_insights_url"
    /\ LET err == upload_gen_url_answered(resp)
           calls == <<"write_table", "post:gen_insights_url">>
       IN  IF err # "none"
           THEN /\ lastOp' = Finished(upload.entry, err, calls, resp.status_code)
                /\ cost_pq_file' = TemporaryDirectory_exit(err)
                /\ upload' = Idle
           ELSE /\ upload' = Waiting("post:signed_url", upload.entry, resp.status_code)
                /\ UNCHANGED <<lastOp, cost_pq_file>>
    /\ UNCHANGED <<instance, runs, procs, launched>>

\* session.post of the file returns or raises: the call ends, file removed.
FilePostAnswered(resp) ==
    /\ upload.pc = "post:signed_url"
    /\ LET err == upload_file_posted(resp) IN
        /\ lastOp' = Finished(upload.entry, err,
                              <<"write_table", "post:gen_insights_url",
                                "post:signed_url">>, upload.status)
        /\ cost_pq_file' = TemporaryDirectory_exit(err)
        /\ upload' = Idle
    /\ UNCHANGED <<instance, runs, procs, launched>>

\* The run-state machine of the framework reports an unfinished run finished.
FinishRun(run_id) ==
    /\ ~is_finished(runs[run_id])
    /\ runs' = [runs EXCEPT ![run_id].status = "SUCCESS"]
    /\ UNCHANGED <<instance, procs, cost_pq_file, launched, upload, lastOp>>

\* A live OS process exits, on its own or because of a pending signal.
ProcessExit(pid) ==
    /\ procs[pid] \in {"RUNNING", "SIGNALED"}
    /\ procs' = [procs EXCEPT ![pid] = "NOT_RUNNING"]
    /\ UNCHANGED <<instance, runs, cost_pq_file, launched, upload, lastOp>>

NextLauncher ==
    \/ \E r \in StoredRunIds, o \in {"None", "origin"}, p \in Pids : LaunchRun(r, o, p)
    \/ \E r \in RunIds : CanTerminate(r)
    \/ \E r \in RunIds : Terminate(r)
    \/ \E r \in StoredRunIds : FinishRun(r)
    \/ \E p \in Pids : ProcessExit(p)

NextUploader ==
    \/ \E i \in BOOLEAN : Upload(i)
    \/ \E i \in BOOLEAN : Put(i)
    \/ \E resp \in GenUrlResponses : GenUrlAnswered(resp)
    \/ \E resp \in FilePostResponses : FilePostAnswered(resp)

Next == NextLauncher \/ NextUploader

\* Both components on one instance.
Spec == Init /\ [][Next]_vars

\* The launcher and its environment alone.
SpecLauncher == Init /\ [][NextLauncher]_vars

TypeOK ==
    /\ instance \in InstanceKinds
    /\ cost_pq_file \in BOOLEAN
    /\ \A p \in Pids : procs[p] \in {"RUNNING", "SIGNALED", "NOT_RUNNING"}
    /\ \A r \in StoredRunIds : runs[r].status \in RunStatuses

\* ------------------------------------------------------------ properties
Calls(out) == {out.calls[i] : i \in DOMAIN out.calls}
Alive(pid) == procs[pid] \in {"RUNNING", "SIGNALED"}
HasPidTag(run_id) == run_id \in DOMAIN runs /\ PID_TAG \in DOMAIN runs[run_id].tags
Unfinished(run_id) ==
    run_id \in DOMAIN runs /\ runs[run_id].status \in {"STARTED", "CANCELING"}
NetworkCalls == {"post:gen_insights_url", "post:signed_url"}
ProcessCalls == {"launch_process", "check_on_process", "kill_process"}

\* C1: in every reachable state and for every run id, can_terminate(run_id)
\* is false when the run does not exist, is finished, has no process/pid
\* tag, or the process of its recorded pid is not running; it is true only
\* when the run exists, is unfinished, has a pid tag and that process runs.
C1_CanTerminate ==
    \A r \in RunIds :
        LET ret == can_terminate(r).ret
            ok == /\ Unfinished(r)
                  /\ HasPidTag(r)
                  /\ launched[r] \in Pids
                  /\ Alive(launched[r])
        IN  /\ ~ok => ret = FALSE
            /\ ret = TRUE => ok
            /\ can_terminate(r).err = "none"

\* can_terminate has just answered TRUE for a run whose process is alive, and
\* another stored run has a pid tag whose process is gone.
C1_Witness ==
    /\ lastOp.op = "can_terminate" /\ lastOp.ret = TRUE
    /\ Alive(lastOp.pid)
    /\ \E r \in StoredRunIds :
        r # lastOp.arg /\ HasPidTag(r) /\ Unfinished(r) /\ ~Alive(launched[r])

\* C2: terminate(run_id) on an existing, unfinished run with a recorded pid
\* whose process is running sends the run-canceling notification exactly
\* once, then the signal to that pid, and returns TRUE while the process is
\* still there (signalled, not waited for).
C2_TerminateRunning ==
    [][lastOp'.op = "terminate" => \A r \in RunIds :
        (/\ Terminate(r)
         /\ Unfinished(r) /\ HasPidTag(r) /\ Alive(launched[r]))
        => /\ lastOp'.ret = TRUE /\ lastOp'.err = "none"
           /\ lastOp'.calls = <<"report_run_canceling", "kill_process">>
           /\ lastOp'.pid = launched[r]
           /\ lastOp'.signal = "delivered"
           /\ procs' = [procs EXCEPT ![launched[r]] = "SIGNALED"]
           /\ runs'[r].status = "CANCELING"]_vars

\* terminate has returned TRUE and the signalled process has not exited yet.
C2_Witness ==
    /\ lastOp.op = "terminate" /\ lastOp.ret = TRUE
    /\ lastOp.signal = "delivered"
    /\ procs[lastOp.pid] = "SIGNALED"
    /\ runs[lastOp.arg].status = "CANCELING"

\* C3 as stated: with an instance that is not the cloud-agent variant, the
\* uploader, launch_run and terminate each fail with a configuration error
\* and make no network call, process spawn, liveness check or signal.  (A
\* call that already failed for a missing import or a missing code origin
\* is not held against the statement.)
C3_Original ==
    (/\ instance # DagsterCloudAgentInstance
     /\ lastOp.op \in {"upload_cost_information", "launch_run", "terminate"}
     /\ lastOp.err \notin {"ImportError", "CheckError"})
    => /\ lastOp.err = "RuntimeError"
       /\ Calls(lastOp) \cap (NetworkCalls \cup ProcessCalls) = {}

\* C3 amended: with an instance that is not the cloud-agent variant,
\* upload_cost_information fails with the configuration error once its
\* imports succeeded (with the ImportError before anything is written
\* otherwise) and makes no network call; launch_run and terminate never
\* fail with a configuration error, and spawn and signal as they do with a
\* cloud-agent instance.
C3_Amended ==
    instance # DagsterCloudAgentInstance
    => /\ lastOp.op = "upload_cost_information"
          => /\ lastOp.err \in {"RuntimeError", "ImportError"}
             /\ lastOp.err = "RuntimeError" => lastOp.calls = <<"write_table">>
             /\ lastOp.err = "ImportError" => lastOp.calls = <<>>
             /\ Calls(lastOp) \cap (NetworkCalls \cup ProcessCalls) = {}
       /\ lastOp.op \in {"launch_run", "terminate"}
          => /\ lastOp.err \in {"none", "CheckError"}
             /\ (lastOp.op = "launch_run" /\ lastOp.err = "none")
                => lastOp.calls = <<"launch_process", "add_run_tags">>
             /\ (lastOp.op = "terminate" /\ lastOp.ret)
                => lastOp.calls = <<"report_run_canceling", "kill_process">>

\* The uploader has failed with the configuration error before any request.
C3_Witness ==
    /\ instance # DagsterCloudAgentInstance
    /\ lastOp.op = "upload_cost_information"
    /\ lastOp.err = "RuntimeError"
    /\ lastOp.calls = <<"write_table">>

\* C4: when the upload-URL request is answered with a non-success status,
\* upload_cost_information fails with the HTTP error and does not POST the
\* file; the file is POSTed only after a success answer to that request.
C4_HttpErrorStopsUpload ==
    /\ upload.pc = "post:signed_url" => upload.status \in 200..299
    /\ lastOp.op = "upload_cost_information"
       => /\ (lastOp.status # 0 /\ lastOp.status \notin 200..299)
             => /\ lastOp.err = "DagsterCloudHTTPError"
                /\ lastOp.calls = <<"write_table", "post:gen_insights_url">>
          /\ "post:signed_url" \in Calls(lastOp)
             => /\ lastOp.status \in 200..299
                /\ lastOp.calls = <<"write_table", "post:gen_insights_url",
                                    "post:signed_url">>
          /\ lastOp.err = "DagsterCloudHTTPError" => lastOp.status \notin 200..299

\* The upload has failed with the HTTP error on a 404 answer, file not POSTed.
C4_Witness ==
    /\ lastOp.op = "upload_cost_information"
    /\ lastOp.err = "DagsterCloudHTTPError" /\ lastOp.status = 404
    /\ "post:signed_url" \notin Calls(lastOp)

\* C5: cost.parquet exists only while an upload call is in progress:
\* whatever way a call that wrote the file ends, the file is gone when the
\* call is over.
C5_TempFileRemoved == upload.pc = "idle" => cost_pq_file = FALSE

\* An upload wrote the file and then failed in the file POST.
C5_Witness ==
    /\ upload.pc = "idle"
    /\ lastOp.op = "upload_cost_information"
    /\ lastOp.calls = <<"write_table", "post:gen_insights_url", "post:signed_url">>
    /\ lastOp.err = "ConnectionError"
    /\ cost_pq_file = FALSE

\* The outcomes upload_cost_information can have on this instance, over
\* every import state and every answer to its two requests.
UploadOutcomes ==
    LET U(err, calls, status) ==
            Result("upload_cost_information", "", FALSE, err, calls, 0, status, "none")
        asked == <<"write_table", "post:gen_insights_url">>
    IN  {U(upload_enter(i, instance).err, upload_enter(i, instance).calls, 0) :
            i \in {b \in BOOLEAN : upload_enter(b, instance).err # "none"}}
        \cup {U(upload_gen_url_answered(resp), asked, resp.status_code) :
                resp \in {r \in GenUrlResponses :
                            /\ upload_enter(TRUE, instance).err = "none"
                            /\ upload_gen_url_answered(r) # "none"}}
        \cup {U(upload_file_posted(up), asked \o <<"post:signed_url">>,
                 resp.status_code) :
                resp \in {r \in GenUrlResponses :
                            /\ upload_enter(TRUE, instance).err = "none"
                            /\ upload_gen_url_answered(r) = "none"},
                up \in FilePostResponses}

\* C6: every outcome of put_cost_information is an outcome of the upload in
\* which ImportError, and no other error, has become the install-extra
\* error: that error comes with no call made at all, and every other
\* outcome (configuration, request, HTTP, malformed answer, normal return)
\* is the upload's own.
C6_ImportErrorTranslated ==
    lastOp.op = "put_cost_information"
    => /\ \E inner \in UploadOutcomes :
            lastOp = [inner EXCEPT
                        !.op = "put_cost_information",
                        !.err = IF @ = "ImportError" THEN InstallExtra ELSE @]
       /\ lastOp.err # "ImportError"
       /\ lastOp.err = InstallExtra => lastOp.calls = <<>>

\* put_cost_information has raised the install-extra error.
C6_Witness ==
    /\ lastOp.op = "put_cost_information"
    /\ lastOp.err = InstallExtra
    /\ lastOp.calls = <<>>
    /\ upload.pc = "idle"

\* C7: launch_run without a code origin fails with the check error, spawns
\* nothing and writes no tag; with one it spawns exactly one process and
\* writes exactly one tag, process/pid, the decimal string of the new pid.
C7_LaunchRun ==
    [][lastOp'.op = "launch_run" =>
       \A r \in StoredRunIds, o \in {"None", "origin"}, p \in Pids :
        LaunchRun(r, o, p)
        => IF o = "None"
           THEN /\ lastOp'.err = "CheckError" /\ lastOp'.calls = <<>>
                /\ runs' = runs /\ procs' = procs
           ELSE /\ lastOp'.err = "none"
                /\ lastOp'.calls = <<"launch_process", "add_run_tags">>
                /\ procs' = [procs EXCEPT ![p] = "RUNNING"]
                /\ \A q \in StoredRunIds \ {r} : runs'[q] = runs[q]
                /\ runs'[r].status = runs[r].status
                /\ DOMAIN runs'[r].tags = DOMAIN runs[r].tags \cup {PID_TAG}
                /\ \A k \in DOMAIN runs[r].tags \ {PID_TAG} :
                        runs'[r].tags[k] = runs[r].tags[k]
                /\ runs'[r].tags[PID_TAG] = str(p)
                /\ int(runs'[r].tags[PID_TAG]) = p]_vars

\* A launch has spawned a process with a two-digit pid and tagged the run.
C7_Witness ==
    /\ lastOp.op = "launch_run" /\ lastOp.err = "none"
    /\ lastOp.pid >= 10
    /\ Len(runs[lastOp.arg].tags[PID_TAG]) = 2
    /\ procs[lastOp.pid] = "RUNNING"

\* C8: a run has a pid tag exactly when a launch for it has completed, and
\* the tag then is the pid of the latest completed launch, which is the one
\* pid _get_pid finds for the run.
C8_LastLaunchWins ==
    \A r \in StoredRunIds :
        /\ launched[r] = 0 => ~HasPidTag(r)
        /\ launched[r] # 0
           => /\ HasPidTag(r)
              /\ runs[r].tags[PID_TAG] = str(launched[r])
              /\ Unfinished(r) => _get_pid(runs[r]) = Some(launched[r])

\* A run was launched twice: the other run never was, and a process other
\* than the tagged one is alive.
C8_Witness ==
    \E r \in StoredRunIds :
        /\ launched[r] # 0
        /\ \A q \in StoredRunIds \ {r} : launched[q] = 0
        /\ \E p \in Pids \ {launched[r]} : Alive(p)
        /\ lastOp.op = "launch_run" /\ lastOp.arg = r /\ lastOp.pid = launched[r]

\* C9: terminate(run_id) on a run that does not exist, is finished, or has
\* no process/pid tag returns FALSE, notifies nobody, signals nothing and
\* leaves runs, tags and processes as they were.
C9_TerminateNoop ==
    [][lastOp'.op = "terminate" => \A r \in RunIds :
        (Terminate(r) /\ (r \notin DOMAIN runs \/ ~Unfinished(r) \/ ~HasPidTag(r)))
        => /\ lastOp'.ret = FALSE /\ lastOp'.err = "none"
           /\ lastOp'.calls = <<>> /\ lastOp'.signal = "none"
           /\ runs' = runs /\ procs' = procs]_vars

\* terminate has returned FALSE for a finished run whose tagged process lives.
C9_Witness ==
    /\ lastOp.op = "terminate" /\ lastOp.ret = FALSE
    /\ lastOp.arg \in DOMAIN runs
    /\ ~Unfinished(lastOp.arg) /\ HasPidTag(lastOp.arg)
    /\ Alive(launched[lastOp.arg])

\* C10: for an unfinished run whose recorded pid has no live process,
\* can_terminate returns FALSE, while terminate still notifies and signals
\* the pid; the signal finds no process, nothing is raised, and terminate
\* returns TRUE.
C10_StalePid ==
    [][lastOp'.op \in {"can_terminate", "terminate"} => \A r \in StoredRunIds :
        (Unfinished(r) /\ HasPidTag(r) /\ ~Alive(launched[r]))
        => /\ CanTerminate(r) => (lastOp'.ret = FALSE /\ lastOp'.err = "none")
           /\ Terminate(r)
              => /\ lastOp'.ret = TRUE /\ lastOp'.err = "none"
                 /\ lastOp'.calls = <<"report_run_canceling", "kill_process">>
                 /\ lastOp'.pid = launched[r]
                 /\ lastOp'.signal = "no_such_process"
                 /\ procs' = procs
                 /\ runs'[r].status = "CANCELING"]_vars

\* terminate has returned TRUE after signalling a pid with no process.
C10_Witness ==
    /\ lastOp.op = "terminate" /\ lastOp.ret = TRUE
    /\ lastOp.signal = "no_such_process"
    /\ lastOp.calls = <<"report_run_canceling", "kill_process">>
    /\ ~Alive(lastOp.pid)

====
